---- MODULE Spec2Model ----
(***************************************************************************)
(* mnemonic-otp (src/index.ts): patterned one-time passcodes.              *)
(*                                                                         *)
(* A JavaScript string is a sequence of one-character strings, so that it  *)
(* can be indexed, upper-cased and compared character by character.        *)
(* An optional option (opts.x possibly undefined) is a sequence of length  *)
(* 0 (undefined) or 1 (the value).                                         *)
(* A thrown Error is the err field of a call's result; the error names are *)
(* those of the specification's taxonomy, the messages those of the code.  *)
(***************************************************************************)
EXTENDS Integers, Sequences, FiniteSets, TLC

VARIABLES
    pc,       \* position of the calling program: which call was made last
    opts,     \* the options object handed to generate
    gen,      \* result of the generate call
    rngLog,   \* arguments of the calls made to opts.rng, in order
    rngOut,   \* values those calls returned, in order
    val,      \* the validateCode call: its inputs and its result
    ent,      \* the calcPoolEntropyBits call: its inputs and its result
    pat       \* the pattern call: its input and its result

vars == <<pc, opts, gen, rngLog, rngOut, val, ent, pat>>

-----------------------------------------------------------------------------
(* Bounds of the model *)

\* longest string handed to pattern directly
MaxPatternLen == 4
\* a counting random source starts at one of 0..MaxSeqStart
MaxSeqStart == 3
\* longest explicitly supplied alphabet
MaxAlphabetLen == 2
\* largest explicitly supplied template pool
MaxPool == 2
\* longest enumerated candidate code
MaxCodeLen == 3
\* the rng returns one of the values 0..MaxDraw-1 or max-1
MaxDraw == 2
\* largest alphabet length handed to calcPoolEntropyBits directly
MaxEntropyAlphaLen == 4

-----------------------------------------------------------------------------
(* Helpers *)

Range(s) == {s[i] : i \in 1..Len(s)}

Some(v) == <<v>>
None == <<>>
IsSome(o) == Len(o) = 1
\* o ?? d
OrElse(o, d) == IF IsSome(o) THEN o[1] ELSE d

SeqsUpTo(S, n) == UNION {[1..k -> S] : k \in 0..n}

RECURSIVE Pow(_, _)
Pow(a, n) == IF n = 0 THEN 1 ELSE a * Pow(a, n - 1)

RECURSIVE Gcd(_, _)
Gcd(a, b) == IF b = 0 THEN a ELSE Gcd(b, a % b)

RECURSIVE SeqMax(_)
\* Math.max(...s); Math.max() of nothing is -Infinity, which no template of
\* pattern() produces (pattern rejects the empty string)
SeqMax(s) ==
    IF Len(s) = 1 THEN s[1]
    ELSE LET m == SeqMax(Tail(s)) IN IF s[1] > m THEN s[1] ELSE m

-----------------------------------------------------------------------------
(* Characters *)

UpperLetters ==
    <<"A","B","C","D","E","F","G","H","I","J","K","L","M",
      "N","O","P","Q","R","S","T","U","V","W","X","Y","Z">>

LowerLetters ==
    <<"a","b","c","d","e","f","g","h","i","j","k","l","m",
      "n","o","p","q","r","s","t","u","v","w","x","y","z">>

\* String.prototype.toUpperCase on one character
toUpperCaseChar(ch) ==
    IF \E i \in 1..26 : LowerLetters[i] = ch
    THEN UpperLetters[CHOOSE i \in 1..26 : LowerLetters[i] = ch]
    ELSE ch

\* String.prototype.toUpperCase
toUpperCase(str) == [i \in 1..Len(str) |-> toUpperCaseChar(str[i])]

DEFAULT_ALPHABET ==
    <<"0","1","2","3","4","5","6","7","8","9",
      "A","B","C","D","E","F","G","H","J","K","M","N",
      "P","Q","R","S","T","U","V","W","X","Y","Z">>

-----------------------------------------------------------------------------
(* Templates *)

RECURSIVE patternIdx_CaseSensitive(_, _, _)
\* mutant: the Map keyed by the character as written
patternIdx_CaseSensitive(str, i, seen) ==
    IF i > Len(str) THEN <<>>
    ELSE LET seen2 == IF str[i] \in Range(seen) THEN seen ELSE Append(seen, str[i])
             slot  == (CHOOSE k \in 1..Len(seen2) : seen2[k] = str[i]) - 1
         IN  <<slot>> \o patternIdx_CaseSensitive(str, i + 1, seen2)

RECURSIVE patternIdx(_, _, _)
\* the map callback of pattern: seen is the Map's keys in insertion order, so
\* that a letter's slot is its position in seen, less one
patternIdx(str, i, seen) ==
    IF i > Len(str) THEN <<>>
    ELSE LET upper == toUpperCaseChar(str[i])
             seen2 == IF upper \in Range(seen) THEN seen ELSE Append(seen, upper)
             slot  == (CHOOSE k \in 1..Len(seen2) : seen2[k] = upper) - 1
         IN  <<slot>> \o patternIdx(str, i + 1, seen2)

pattern(str) ==
    IF Len(str) = 0
    THEN [err |-> "InvalidTemplate", name |-> <<>>, idx |-> <<>>]
    ELSE IF \E i \in 1..Len(str) : toUpperCaseChar(str[i]) \notin Range(UpperLetters)
    THEN [err |-> "InvalidTemplate", name |-> <<>>, idx |-> <<>>]
    ELSE [err |-> "none", name |-> toUpperCase(str), idx |-> patternIdx(str, 1, <<>>)]

\* a Template value: the name and idx of a successful pattern() call
Template(str) == [name |-> pattern(str).name, idx |-> pattern(str).idx]

DEFAULT_TEMPLATES ==
    << Template(<<"A","B","C","A","B","C">>),
       Template(<<"A","A","A","B","B","B">>),
       Template(<<"A","B","A","B","A","B">>),
       Template(<<"A","B","C","D","A","B">>),
       Template(<<"A","B","C","C","B","A">>) >>

-----------------------------------------------------------------------------
(* Entropy *)

RECURSIVE FloorLog2(_)
\* floor(log2(n)) of an integer n >= 1
FloorLog2(n) == IF n < 2 THEN 0 ELSE 1 + FloorLog2(n \div 2)

\* a non-negative rational, in lowest terms
Rat(n, d) == LET g == Gcd(n, d) IN [n |-> n \div g, d |-> d \div g]
RatAdd(x, y) == Rat(x.n * y.d + y.n * x.d, x.d * y.d)

\* mutant: the unique-slot count taken as the largest slot index
uniquesOf_MaxIndex(templates) == [i \in 1..Len(templates) |-> SeqMax(templates[i].idx)]

\* the first loop: u = 1 + Math.max(...t.idx) of every template
uniquesOf(templates) == [i \in 1..Len(templates) |-> 1 + SeqMax(templates[i].idx)]

\* the first loop: uMax, which starts at 0
uMaxOf(uniques) == IF Len(uniques) = 0 THEN 0 ELSE SeqMax(<<0>> \o uniques)

RECURSIVE sumScaledOf_OnePlus(_, _, _)
\* mutant: the formula of the comment above the code, log2(1 + sum)
sumScaledOf_OnePlus(uniques, uMax, alphaLen) ==
    IF Len(uniques) = 0 THEN Rat(1, 1)
    ELSE RatAdd(Rat(1, Pow(alphaLen, uMax - uniques[1])),
                sumScaledOf_OnePlus(Tail(uniques), uMax, alphaLen))

RECURSIVE sumScaledOf(_, _, _)
\* the second loop: sumScaled += 2 ** ((u - uMax) * log2a), and
\* 2 ** ((u - uMax) * log2(a)) is 1 / a^(uMax - u)
sumScaledOf(uniques, uMax, alphaLen) ==
    IF Len(uniques) = 0 THEN Rat(0, 1)
    ELSE RatAdd(Rat(1, Pow(alphaLen, uMax - uniques[1])),
                sumScaledOf(Tail(uniques), uMax, alphaLen))

\* The doubles of the code are exact reals here:
\* Math.floor(uMax * log2a + Math.log2(sumScaled)) is the floor of the
\* logarithm of a^uMax * sumScaled, an integer: the denominator of sumScaled
\* is a power of a that divides a^uMax.
calcPoolEntropyBits(templates, alphaLen) ==
    IF alphaLen < 2 THEN [err |-> "InvalidAlphabet", bits |-> 0]
    ELSE IF Len(templates) = 0 THEN [err |-> "InvalidTemplatePool", bits |-> 0]
    ELSE LET uniques   == uniquesOf(templates)
             uMax      == uMaxOf(uniques)
             sumScaled == sumScaledOf(uniques, uMax, alphaLen)
         IN  [err  |-> "none",
              bits |-> FloorLog2((Pow(alphaLen, uMax) \div sumScaled.d) * sumScaled.n)]

-----------------------------------------------------------------------------
(* JavaScript values of the metadata *)

JUndef == [t |-> "undefined"]
JNull == [t |-> "null"]
JNum(n) == [t |-> "number", num |-> n]
JStr(s) == [t |-> "string", str |-> s]
JArr(items) == [t |-> "array", items |-> items]
\* a plain object: its own properties in insertion order, each [k, v]
JObj(props) == [t |-> "object", props |-> props]
Prop(k, v) == [k |-> k, v |-> v]

Punctuation == <<"\"", "+", ",", "-", "/", ":", "=", "[", "]", "_", "{", "}">>
PunctuationCodes == <<34, 43, 44, 45, 47, 58, 61, 91, 93, 95, 123, 125>>
Digits == <<"0","1","2","3","4","5","6","7","8","9">>

\* UTF-16 code unit of the characters the model uses
CharCodes ==
    [ch \in Range(UpperLetters) \cup Range(LowerLetters) \cup Range(Digits)
            \cup Range(Punctuation) |->
        IF \E i \in 1..26 : UpperLetters[i] = ch
        THEN 64 + (CHOOSE i \in 1..26 : UpperLetters[i] = ch)
        ELSE IF \E i \in 1..26 : LowerLetters[i] = ch
        THEN 96 + (CHOOSE i \in 1..26 : LowerLetters[i] = ch)
        ELSE IF \E i \in 1..10 : Digits[i] = ch
        THEN 47 + (CHOOSE i \in 1..10 : Digits[i] = ch)
        ELSE PunctuationCodes[CHOOSE i \in 1..12 : Punctuation[i] = ch]]
CharCode(ch) == CharCodes[ch]

RECURSIVE StrLess(_, _)
\* a < b for strings: by code units, a proper prefix first (the default
\* comparison of Array.prototype.sort)
StrLess(a, b) ==
    IF Len(b) = 0 THEN FALSE
    ELSE IF Len(a) = 0 THEN TRUE
    ELSE IF a[1] # b[1] THEN CharCode(a[1]) < CharCode(b[1])
    ELSE StrLess(Tail(a), Tail(b))

\* a key that is a canonical array index ("0", "2", "10"): such keys come
\* first, in ascending numeric order, whenever an object's own keys are listed
IsArrayIndex(key) ==
    /\ Len(key) > 0
    /\ \A i \in 1..Len(key) : key[i] \in Range(Digits)
    /\ Len(key) = 1 \/ key[1] # "0"

RECURSIVE KeyNumber(_)
KeyNumber(key) ==
    IF Len(key) = 0 THEN 0
    ELSE 10 * KeyNumber(SubSeq(key, 1, Len(key) - 1)) + (CharCode(key[Len(key)]) - 48)

RECURSIVE AscendingIndexKeys(_)
AscendingIndexKeys(keys) ==
    IF Len(keys) = 0 THEN <<>>
    ELSE LET i == CHOOSE i \in 1..Len(keys) :
                      \A j \in 1..Len(keys) : KeyNumber(keys[i]) <= KeyNumber(keys[j])
         IN  <<keys[i]>>
             \o AscendingIndexKeys(SubSeq(keys, 1, i - 1) \o SubSeq(keys, i + 1, Len(keys)))

RECURSIVE KeysWhere(_, _)
\* the keys of the properties that are (index = TRUE) or are not array
\* indices, in insertion order
KeysWhere(props, index) ==
    IF Len(props) = 0 THEN <<>>
    ELSE (IF IsArrayIndex(props[1].k) = index THEN <<props[1].k>> ELSE <<>>)
         \o KeysWhere(Tail(props), index)

\* Object.keys(value): the array-index keys ascending, then the other keys in
\* insertion order
OwnKeys(props) ==
    AscendingIndexKeys(KeysWhere(props, TRUE)) \o KeysWhere(props, FALSE)

\* mutant: the keys left in the order Object.keys lists them
SortKeys_Unsorted(keys) == keys

RECURSIVE SortKeys(_)
\* Object.keys(value).sort(): the keys of an object are distinct
SortKeys(keys) ==
    IF Len(keys) = 0 THEN <<>>
    ELSE LET i == CHOOSE i \in 1..Len(keys) :
                      \A j \in 1..Len(keys) : j = i \/ StrLess(keys[i], keys[j])
         IN  <<keys[i]>> \o SortKeys(SubSeq(keys, 1, i - 1) \o SubSeq(keys, i + 1, Len(keys)))

\* value[key] of an object that has the key
GetProp(props, key) == props[CHOOSE i \in 1..Len(props) : props[i].k = key].v

\* the own properties of an object in the order its keys are listed
OwnProps(props) ==
    LET keys == OwnKeys(props)
    IN  [i \in 1..Len(keys) |-> Prop(keys[i], GetProp(props, keys[i]))]

RECURSIVE SetProp(_, _, _)
\* out[key] = v: an existing key keeps its place, a new one goes last
SetProp(props, key, v) ==
    IF Len(props) = 0 THEN <<Prop(key, v)>>
    ELSE IF props[1].k = key THEN <<Prop(key, v)>> \o Tail(props)
    ELSE <<props[1]>> \o SetProp(Tail(props), key, v)

RECURSIVE Spread(_, _)
\* { ...into, ...props }
Spread(into, props) ==
    IF Len(props) = 0 THEN into
    ELSE Spread(SetProp(into, props[1].k, props[1].v), Tail(props))

\* String(undefined); the digits of a number are those of JSON.stringify
undefinedString == <<"u","n","d","e","f","i","n","e","d">>

RECURSIVE canonicalize(_)
RECURSIVE canonicalizeItems(_)
RECURSIVE canonicalizeProps(_, _)
canonicalize(value) ==
    CASE value.t = "null" -> value
      [] value.t \in {"number", "string"} -> value
      [] value.t = "array" -> JArr(canonicalizeItems(value.items))
      [] value.t = "object" ->
            JObj(canonicalizeProps(value.props, SortKeys(OwnKeys(value.props))))
      [] value.t = "undefined" -> JStr(undefinedString)

canonicalizeItems(items) ==
    IF Len(items) = 0 THEN <<>>
    ELSE <<canonicalize(items[1])>> \o canonicalizeItems(Tail(items))

\* the loop over the sorted keys, which skips the undefined values
canonicalizeProps(props, keys) ==
    IF Len(keys) = 0 THEN <<>>
    ELSE LET v == GetProp(props, keys[1])
         IN  IF v.t = "undefined" THEN canonicalizeProps(props, Tail(keys))
             ELSE <<Prop(keys[1], canonicalize(v))>> \o canonicalizeProps(props, Tail(keys))

RECURSIVE NumChars(_)
\* the decimal digits of an integer n >= 0
NumChars(n) ==
    LET d == Digits[(n % 10) + 1]
    IN  IF n < 10 THEN <<d>> ELSE NumChars(n \div 10) \o <<d>>

RECURSIVE stringify(_)
RECURSIVE stringifyItems(_)
RECURSIVE stringifyProps(_)
\* JSON.stringify of a canonical value; the strings of the model hold
\* letters and digits only, which JSON writes unescaped
stringify(value) ==
    CASE value.t = "null" -> <<"n","u","l","l">>
      [] value.t = "number" -> NumChars(value.num)
      [] value.t = "string" -> <<"\"">> \o value.str \o <<"\"">>
      [] value.t = "array" -> <<"[">> \o stringifyItems(value.items) \o <<"]">>
      [] value.t = "object" -> <<"{">> \o stringifyProps(OwnProps(value.props)) \o <<"}">>

stringifyItems(items) ==
    IF Len(items) = 0 THEN <<>>
    ELSE stringify(items[1])
         \o (IF Len(items) > 1 THEN <<",">> ELSE <<>>)
         \o stringifyItems(Tail(items))

stringifyProps(props) ==
    IF Len(props) = 0 THEN <<>>
    ELSE <<"\"">> \o props[1].k \o <<"\"", ":">> \o stringify(props[1].v)
         \o (IF Len(props) > 1 THEN <<",">> ELSE <<>>)
         \o stringifyProps(Tail(props))

canonicalJson(obj) == stringify(canonicalize(obj))

asFlatMetaObject(meta) ==
    IF meta.t = "undefined" THEN <<>>
    ELSE LET canon == canonicalize(meta)
         IN  IF canon.t = "object" THEN canon.props
             ELSE <<Prop(<<"m","e","t","a">>, canon)>>

\* the object literal { code, ...asFlatMetaObject(opts.meta) }
payloadObject(code, meta) ==
    JObj(Spread(<<Prop(<<"c","o","d","e">>, JStr(code))>>, OwnProps(asFlatMetaObject(meta))))

-----------------------------------------------------------------------------
(* Keyed digest and its text encodings *)

\* length in bytes of h.digest()
HashLen(algo) == IF algo = "sha512" THEN 64 ELSE 32

\* bit p (from 0, most significant first) of a string written with 7 bits a
\* character; 0 past its end
BitAt(msg, p) ==
    IF p \div 7 < Len(msg)
    THEN (CharCode(msg[(p \div 7) + 1]) \div Pow(2, 6 - (p % 7))) % 2
    ELSE 0

\* byte k (from 0) of that bit string
ByteAt(msg, k) ==
    LET b(j) == BitAt(msg, 8 * k + j)
    IN  128 * b(0) + 64 * b(1) + 32 * b(2) + 16 * b(3)
        + 8 * b(4) + 4 * b(5) + 2 * b(6) + b(7)

RECURSIVE FoldByte(_, _, _)
\* the bytes k, k + step, k + 2 step, ... of the string, added up
FoldByte(msg, k, step) ==
    IF 8 * k >= 7 * Len(msg) THEN 0
    ELSE (ByteAt(msg, k) + FoldByte(msg, k + step, step)) % 256

\* createHmac(algo, secret).update(payload).digest(): the library's keyed
\* digest, as a digest of the right length that differs whenever the key or
\* the payload does (as long as they fit: the lengths of both, then both
\* packed, every byte shifted by a fixed mask)
hmacDigest(algo, secret, payload) ==
    LET n   == HashLen(algo)
        msg == secret \o payload
    IN  [i \in 1..n |->
            ((CASE i = 1 -> Len(secret) % 256
                [] i = 2 -> Len(payload) % 256
                [] OTHER -> FoldByte(msg, i - 3, n - 2))
             + 151 * i + 43) % 256]

computeCodeHmacRaw(code, o) ==
    LET algo    == OrElse(o.hmacAlgorithm, "sha256")
        payload == canonicalJson(payloadObject(code, o.meta))
    IN  hmacDigest(algo, o.secret[1], payload)

HexDigits == <<"0","1","2","3","4","5","6","7","8","9","a","b","c","d","e","f">>

Base64Chars ==
    UpperLetters \o LowerLetters
    \o Digits \o <<"+", "/">>

\* buf.toString("hex")
toHex(buf) ==
    [i \in 1..(2 * Len(buf)) |->
        LET b == buf[(i + 1) \div 2]
        IN  HexDigits[(IF i % 2 = 1 THEN b \div 16 ELSE b % 16) + 1]]

\* buf.toString("base64"): 4 characters for every 3 bytes, padded with =
\* (character i of the output comes from the bytes b1, b2, b3 of its group,
\* a byte past the end counting as 0 for the character before the padding)
toBase64(buf) ==
    LET n == Len(buf)
        c(v) == Base64Chars[v + 1]
        at(k) == IF k <= n THEN buf[k] ELSE 0
    IN  [i \in 1..(4 * ((n + 2) \div 3)) |->
            LET g  == 3 * ((i - 1) \div 4)
                b1 == at(g + 1)
                b2 == at(g + 2)
                b3 == at(g + 3)
            IN  CASE (i - 1) % 4 = 0 -> c(b1 \div 4)
                  [] (i - 1) % 4 = 1 -> c((b1 % 4) * 16 + b2 \div 16)
                  [] (i - 1) % 4 = 2 ->
                        IF g + 2 > n THEN "=" ELSE c((b2 % 16) * 4 + b3 \div 64)
                  [] (i - 1) % 4 = 3 ->
                        IF g + 3 > n THEN "=" ELSE c(b3 % 64)]

\* str.replace(/x/g, y) for single characters
replaceAll(str, x, y) == [i \in 1..Len(str) |-> IF str[i] = x THEN y ELSE str[i]]

RECURSIVE stripTrailingPad(_)
\* str.replace(/=+$/g, "")
stripTrailingPad(str) ==
    IF Len(str) > 0 /\ str[Len(str)] = "="
    THEN stripTrailingPad(SubSeq(str, 1, Len(str) - 1))
    ELSE str

encodeBuffer(buf, enc) ==
    CASE enc = "hex" -> toHex(buf)
      [] enc = "base64" -> toBase64(buf)
      [] enc = "base64url" ->
            stripTrailingPad(replaceAll(replaceAll(toBase64(buf), "+", "-"), "/", "_"))

\* value of a hex digit of either case, -1 for any other character
unhex(ch) ==
    IF \E i \in 1..16 : HexDigits[i] = ch
    THEN (CHOOSE i \in 1..16 : HexDigits[i] = ch) - 1
    ELSE IF \E i \in 1..6 : UpperLetters[i] = ch
    THEN 9 + (CHOOSE i \in 1..6 : UpperLetters[i] = ch)
    ELSE -1

\* Buffer.from(str, "hex") of a string of even length: decoding stops at the
\* first pair that is not two hex digits
fromHex(str) ==
    LET pairs == Len(str) \div 2
        bad   == {p \in 1..pairs : unhex(str[2 * p - 1]) < 0 \/ unhex(str[2 * p]) < 0}
        n     == IF bad = {} THEN pairs
                 ELSE (CHOOSE p \in bad : \A q \in bad : p <= q) - 1
    IN  [p \in 1..n |-> 16 * unhex(str[2 * p - 1]) + unhex(str[2 * p])]

\* value of a base64 character of either alphabet, -1 for any other character
unbase64(ch) ==
    IF \E i \in 1..64 : Base64Chars[i] = ch
    THEN (CHOOSE i \in 1..64 : Base64Chars[i] = ch) - 1
    ELSE IF ch = "-" THEN 62
    ELSE IF ch = "_" THEN 63
    ELSE -1

RECURSIVE sextetsOf(_, _, _)
\* the base64 values of the characters from..to of str, the characters that
\* are not base64 skipped (by halves)
sextetsOf(str, from, to) ==
    IF from > to THEN <<>>
    ELSE IF from = to
    THEN (IF unbase64(str[from]) < 0 THEN <<>> ELSE <<unbase64(str[from])>>)
    ELSE LET mid == (from + to) \div 2
         IN  sextetsOf(str, from, mid) \o sextetsOf(str, mid + 1, to)

\* the values Node's decoder reads: it skips the characters that are not
\* base64 and stops at the first =
base64Sextets(str) ==
    LET pads == {i \in 1..Len(str) : str[i] = "="}
        end  == IF pads = {} THEN Len(str)
                ELSE (CHOOSE i \in pads : \A j \in pads : i <= j) - 1
    IN  sextetsOf(str, 1, end)

\* the whole bytes held by a sequence of 6-bit values: 3 bytes for every 4
\* values, then 1 byte for 2 left over and 2 bytes for 3
sextetsToBytes(q) ==
    [k \in 1..((6 * Len(q)) \div 8) |->
        LET g == 4 * ((k - 1) \div 3)
        IN  CASE (k - 1) % 3 = 0 -> q[g + 1] * 4 + q[g + 2] \div 16
              [] (k - 1) % 3 = 1 -> (q[g + 2] % 16) * 16 + q[g + 3] \div 4
              [] (k - 1) % 3 = 2 -> (q[g + 3] % 4) * 64 + q[g + 4]]

\* Buffer.from(str, "base64")
fromBase64(str) == sextetsToBytes(base64Sextets(str))

\* Some(buffer), or None for null; Buffer.from does not throw on a string
decodeHmacToBuffer(hmac, enc) ==
    CASE enc = "hex" ->
            IF Len(hmac) % 2 # 0 THEN None ELSE Some(fromHex(hmac))
      [] enc = "base64" -> Some(fromBase64(hmac))
      [] enc = "base64url" ->
            LET r      == Len(hmac) % 4
                padLen == (4 - (IF r # 0 THEN r ELSE 4)) % 4
                padded == replaceAll(replaceAll(hmac, "-", "+"), "_", "/")
                          \o [i \in 1..padLen |-> "="]
            IN  Some(fromBase64(padded))

computeCodeHmac(code, o) ==
    LET raw == computeCodeHmacRaw(toUpperCase(code), o)
        enc == OrElse(o.hmacEncoding, "hex")
    IN  encodeBuffer(raw, enc)

-----------------------------------------------------------------------------
(* generate and validateCode *)

\* if (x) of an optional string: undefined and "" are falsy
Truthy(o) == IsSome(o) /\ Len(o[1]) > 0

\* mutant: the duplicate check left out
ensureUniqueAlphabet_NoCheck(alphabet) == TRUE

\* TRUE when ensureUniqueAlphabet returns, FALSE when it throws
ensureUniqueAlphabet(alphabet) ==
    \A i, j \in 1..Len(alphabet) : alphabet[i] = alphabet[j] => i = j

GenerateFailed(e) ==
    [err |-> e, code |-> <<>>, template |-> <<>>, entropyBits |-> 0,
     hmac |-> None, rngCalls |-> <<>>]

\* mutant: the draws handed to the slots in reverse order
generate_SlotsReversed(o, rng) ==
    LET alphabet  == OrElse(o.alphabet, DEFAULT_ALPHABET)
        templates == OrElse(o.templates, DEFAULT_TEMPLATES)
    IN  IF Len(alphabet) < 2 THEN GenerateFailed("InvalidAlphabet")
        ELSE IF ~ensureUniqueAlphabet(alphabet) THEN GenerateFailed("InvalidAlphabet")
        ELSE IF Len(templates) = 0 THEN GenerateFailed("InvalidTemplatePool")
        ELSE LET single  == Len(templates) = 1
                 t       == IF single THEN templates[1] ELSE templates[rng[1] + 1]
                 used    == IF single THEN 0 ELSE 1
                 unique  == 1 + SeqMax(t.idx)
                 symbols == [i \in 1..unique |-> alphabet[rng[used + i] + 1]]
                 code    == [p \in 1..Len(t.idx) |-> symbols[unique - t.idx[p]]]
             IN  [err         |-> "none",
                  code        |-> code,
                  template    |-> t.name,
                  entropyBits |-> calcPoolEntropyBits(templates, Len(alphabet)).bits,
                  hmac        |-> IF Truthy(o.secret)
                                  THEN Some(computeCodeHmac(code, o))
                                  ELSE None,
                  rngCalls    |-> (IF single THEN <<>> ELSE <<Len(templates)>>)
                                  \o [i \in 1..unique |-> Len(alphabet)]]

\* rng is the sequence of the values opts.rng returns, call after call;
\* rngCalls is the sequence of the arguments it was called with
generate(o, rng) ==
    LET alphabet  == OrElse(o.alphabet, DEFAULT_ALPHABET)
        templates == OrElse(o.templates, DEFAULT_TEMPLATES)
    IN  IF Len(alphabet) < 2 THEN GenerateFailed("InvalidAlphabet")
        ELSE IF ~ensureUniqueAlphabet(alphabet) THEN GenerateFailed("InvalidAlphabet")
        ELSE IF Len(templates) = 0 THEN GenerateFailed("InvalidTemplatePool")
        ELSE LET single  == Len(templates) = 1
                 t       == IF single THEN templates[1] ELSE templates[rng[1] + 1]
                 used    == IF single THEN 0 ELSE 1
                 unique  == 1 + SeqMax(t.idx)
                 symbols == [i \in 1..unique |-> alphabet[rng[used + i] + 1]]
                 code    == [p \in 1..Len(t.idx) |-> symbols[t.idx[p] + 1]]
             IN  [err         |-> "none",
                  code        |-> code,
                  template    |-> t.name,
                  entropyBits |-> calcPoolEntropyBits(templates, Len(alphabet)).bits,
                  hmac        |-> IF Truthy(o.secret)
                                  THEN Some(computeCodeHmac(code, o))
                                  ELSE None,
                  rngCalls    |-> (IF single THEN <<>> ELSE <<Len(templates)>>)
                                  \o [i \in 1..unique |-> Len(alphabet)]]

\* mutant: different slots must hold different characters too
matchesTemplate_Distinct(code, t) ==
    /\ Len(code) = Len(t.idx)
    /\ \A i, j \in 1..Len(code) : (t.idx[i] = t.idx[j]) <=> (code[i] = code[j])

\* the Map of matchesTemplate holds, for a slot, the character at the slot's
\* first position
matchesTemplate(code, t) ==
    IF Len(code) # Len(t.idx) THEN FALSE
    ELSE LET first(slot) == CHOOSE j \in 1..Len(code) :
                                /\ t.idx[j] = slot
                                /\ \A k \in 1..(j - 1) : t.idx[k] # slot
         IN  \A i \in 1..Len(code) : code[first(t.idx[i])] = code[i]

\* timingSafeEqual of two buffers of one length
timingSafeEqual(a, b) == a = b

\* mutant: a length mismatch answered with the wrong boolean
verifyHmac_LengthMismatchAccepted(up, o) ==
    LET expectedRaw == computeCodeHmacRaw(up, o)
        enc         == OrElse(o.hmacEncoding, "hex")
        providedRaw == decodeHmacToBuffer(o.hmac[1], enc)
    IN  IF ~IsSome(providedRaw) THEN FALSE
        ELSE IF Len(providedRaw[1]) # Len(expectedRaw) THEN TRUE
        ELSE timingSafeEqual(providedRaw[1], expectedRaw)

\* the HMAC branch of validateCode, for a code that passed the syntax check
verifyHmac(up, o) ==
    LET expectedRaw == computeCodeHmacRaw(up, o)
        enc         == OrElse(o.hmacEncoding, "hex")
        providedRaw == decodeHmacToBuffer(o.hmac[1], enc)
    IN  IF ~IsSome(providedRaw) THEN FALSE
        ELSE IF Len(providedRaw[1]) # Len(expectedRaw) THEN FALSE
        ELSE timingSafeEqual(providedRaw[1], expectedRaw)

\* mutant: validateCode checking its options the way generate does
validateCode_ChecksOptions(code, o) ==
    LET alphabet  == OrElse(o.alphabet, DEFAULT_ALPHABET)
        templates == OrElse(o.templates, DEFAULT_TEMPLATES)
        up        == toUpperCase(code)
    IN  IF Len(alphabet) < 2 \/ Cardinality(Range(alphabet)) < Len(alphabet)
        THEN [err |-> "InvalidAlphabet", ok |-> FALSE]
        ELSE IF Len(templates) = 0
        THEN [err |-> "InvalidTemplatePool", ok |-> FALSE]
        ELSE [err |-> "none",
              ok |-> /\ \A i \in 1..Len(up) : up[i] \in Range(alphabet)
                     /\ \E k \in 1..Len(templates) :
                           /\ Len(up) = Len(templates[k].idx)
                           /\ \A i, j \in 1..Len(up) :
                                 templates[k].idx[i] = templates[k].idx[j] => up[i] = up[j]
                     /\ (Truthy(o.hmac) /\ Truthy(o.secret)) => verifyHmac(up, o)]

\* err is the error validateCode throws ("none": it returned ok)
validateCode(code, o) ==
    LET alphabet  == OrElse(o.alphabet, DEFAULT_ALPHABET)
        templates == OrElse(o.templates, DEFAULT_TEMPLATES)
        up        == toUpperCase(code)
        alphaSet  == Range(alphabet)
    IN  IF \E i \in 1..Len(up) : up[i] \notin alphaSet
        THEN [err |-> "none", ok |-> FALSE]
        ELSE IF ~\E k \in 1..Len(templates) : matchesTemplate(up, templates[k])
        THEN [err |-> "none", ok |-> FALSE]
        ELSE IF Truthy(o.hmac) /\ Truthy(o.secret)
        THEN [err |-> "none", ok |-> verifyHmac(up, o)]
        ELSE [err |-> "none", ok |-> TRUE]

-----------------------------------------------------------------------------
(* The calling program: inputs *)

\* the values a random source may return for rng(max)
rngValues(max) == {v \in 0..(max - 1) : v < MaxDraw \/ v = max - 1}

\* the sequences of values the random source returns to one generate call
rngRuns(o) ==
    LET alphabet  == OrElse(o.alphabet, DEFAULT_ALPHABET)
        templates == OrElse(o.templates, DEFAULT_TEMPLATES)
        n         == Len(templates)
        symRuns(t) == [1..(1 + SeqMax(t.idx)) -> rngValues(Len(alphabet))]
    IN  IF n = 0 \/ Len(alphabet) = 0 THEN {<<>>}
        ELSE IF n = 1 THEN symRuns(templates[1])
        ELSE UNION {{<<sel>> \o syms : syms \in symRuns(templates[sel + 1])} :
                    sel \in rngValues(n)}

AlphabetChars == {"A", "B", "a"}
Alphabets == SeqsUpTo(AlphabetChars, MaxAlphabetLen)

PatternStrings ==
    {<<"a">>, <<"A","b">>, <<"A","B","A">>, <<"A","B","C","A","B","C">>}
Pools == SeqsUpTo({Template(str) : str \in PatternStrings}, MaxPool)

ExampleCodes == {<<"Z","Z","Z","Z","Z","Z">>, <<"Z","Z","Z","Z","Z","X">>}
Candidates == SeqsUpTo(AlphabetChars, MaxCodeLen) \cup ExampleCodes

NoHmacOptions(alphabet, templates) ==
    [alphabet |-> alphabet, templates |-> templates, secret |-> None,
     meta |-> JUndef, hmacAlgorithm |-> None, hmacEncoding |-> None, hmac |-> None]

SyntaxOptions ==
    {NoHmacOptions(a, p) :
        a \in {None} \cup {Some(x) : x \in Alphabets},
        p \in {None} \cup {Some(x) : x \in Pools}}

NotGenerated == GenerateFailed("notcalled")
NotValidated == [code |-> <<>>, o |-> NoHmacOptions(None, None), err |-> "notcalled", ok |-> FALSE]
NoEntropy == [templates |-> <<>>, alphaLen |-> 0, err |-> "notcalled", bits |-> 0]
NoPattern == [str |-> <<>>, err |-> "notcalled", name |-> <<>>, idx |-> <<>>]

-----------------------------------------------------------------------------
(* The calling program: generate, then validate; or validate a candidate *)

Init ==
    /\ pc = "start"
    /\ opts \in SyntaxOptions
    /\ gen = NotGenerated
    /\ rngLog = <<>>
    /\ rngOut = <<>>
    /\ val = NotValidated
    /\ ent = NoEntropy
    /\ pat = NoPattern

Generate ==
    /\ pc = "start"
    /\ \E rng \in rngRuns(opts) :
          /\ gen' = generate(opts, rng)
          /\ rngLog' = gen'.rngCalls
          /\ rngOut' = SubSeq(rng, 1, Len(rngLog'))
    /\ pc' = "generated"
    /\ UNCHANGED <<opts, val, ent, pat>>

\* the record of a validateCode(code, o) call
Validation(code, o) == [code |-> code, o |-> o] @@ validateCode(code, o)

\* validateCode(g.code, the options of generate and hmac: g.hmac)
ValidateGenerated ==
    /\ pc = "generated"
    /\ gen.err = "none"
    /\ val' = Validation(gen.code, [opts EXCEPT !.hmac = gen.hmac])
    /\ pc' = "validated"
    /\ UNCHANGED <<opts, gen, rngLog, rngOut, ent, pat>>

\* validateCode(candidate, options) on a string of the caller's
ValidateCandidate ==
    /\ pc = "start"
    /\ \E code \in Candidates : val' = Validation(code, opts)
    /\ pc' = "checked"
    /\ UNCHANGED <<opts, gen, rngLog, rngOut, ent, pat>>

Next == Generate \/ ValidateGenerated \/ ValidateCandidate

Spec == Init /\ [][Next]_vars

-----------------------------------------------------------------------------
(* The calling program: calcPoolEntropyBits *)

EntropyPatternStrings ==
    {<<"a">>, <<"A","b">>, <<"A","B","A">>, <<"A","B","C">>, <<"A","B","C","D">>}
EntropyPools ==
    SeqsUpTo({Template(str) : str \in EntropyPatternStrings}, MaxPool)
    \cup {DEFAULT_TEMPLATES}

InitEntropy ==
    /\ pc = "start"
    /\ opts = NoHmacOptions(None, None)
    /\ gen = NotGenerated
    /\ rngLog = <<>>
    /\ rngOut = <<>>
    /\ val = NotValidated
    /\ \E p \in EntropyPools, a \in (0..MaxEntropyAlphaLen) \cup {Len(DEFAULT_ALPHABET)} :
          ent = [templates |-> p, alphaLen |-> a, err |-> "notcalled", bits |-> 0]
    /\ pat = NoPattern

CalcEntropy ==
    /\ pc = "start"
    /\ ent' = [ent EXCEPT !.err = calcPoolEntropyBits(ent.templates, ent.alphaLen).err,
                          !.bits = calcPoolEntropyBits(ent.templates, ent.alphaLen).bits]
    /\ pc' = "entropy"
    /\ UNCHANGED <<opts, gen, rngLog, rngOut, val, pat>>

NextEntropy == CalcEntropy

SpecEntropy == InitEntropy /\ [][NextEntropy]_vars

-----------------------------------------------------------------------------
(* The calling program: generate with a secret, then validate against the
   stored hmac with one of the inputs changed *)

HmacAlphabets == {<<"A","B">>, <<"a","B">>}
HmacPools == {<<Template(<<"A","b">>)>>}
Secrets == {<<"k">>, <<"s">>, <<>>}
Algorithms == {"sha256", "sha512"}
Encodings == {"hex", "base64", "base64url"}

KeyA == <<"a">>
KeyB == <<"b">>
KeyCode == <<"c","o","d","e">>
KeyMeta == <<"m","e","t","a">>

Metas ==
    { JUndef,
      JNum(1),
      JObj(<<>>),
      JObj(<<Prop(KeyA, JNum(1))>>),
      JObj(<<Prop(KeyA, JNum(2))>>),
      JObj(<<Prop(KeyA, JUndef)>>),
      JObj(<<Prop(KeyA, JNum(1)), Prop(KeyB, JStr(<<"x">>))>>),
      JObj(<<Prop(KeyB, JStr(<<"x">>)), Prop(KeyA, JNum(1))>>),
      JObj(<<Prop(KeyMeta, JNum(1))>>),
      JObj(<<Prop(KeyCode, JStr(<<"B","B">>))>>),
      JObj(<<Prop(KeyCode, JStr(<<"B","B">>)), Prop(KeyA, JNum(1))>>) }

HmacOptions ==
    [alphabet : {Some(x) : x \in HmacAlphabets},
     templates : {Some(x) : x \in HmacPools},
     secret : {None} \cup {Some(x) : x \in Secrets},
     meta : Metas,
     hmacAlgorithm : {None, Some("sha512")},
     hmacEncoding : {None, Some("base64"), Some("base64url")},
     hmac : {None}]

\* the strings over the alphabet that differ from code in one character
OneCharChanges(code) ==
    {[code EXCEPT ![i] = ch] :
        i \in 1..Len(code), ch \in Range(OrElse(opts.alphabet, DEFAULT_ALPHABET))} \ {code}

\* other strings a caller may hand in as the stored hmac
OtherHmacs(h) ==
    {Some(<<>>)} \cup
    (IF IsSome(h) /\ Len(h[1]) > 0
     THEN {Some(SubSeq(h[1], 1, Len(h[1]) - 1)), Some(toUpperCase(h[1])),
           Some(h[1] \o <<"=">>)}
     ELSE {})

InitHmac ==
    /\ pc = "start"
    /\ opts \in HmacOptions
    /\ gen = NotGenerated
    /\ rngLog = <<>>
    /\ rngOut = <<>>
    /\ val = NotValidated
    /\ ent = NoEntropy
    /\ pat = NoPattern

\* what the caller hands to validateCode when nothing was changed
Stored == [opts EXCEPT !.hmac = gen.hmac]

ValidateOtherCode ==
    /\ pc = "generated"
    /\ gen.err = "none"
    /\ \E code \in OneCharChanges(gen.code) : val' = Validation(code, Stored)
    /\ pc' = "validated"
    /\ UNCHANGED <<opts, gen, rngLog, rngOut, ent, pat>>

ValidateOtherMeta ==
    /\ pc = "generated"
    /\ gen.err = "none"
    /\ \E m \in Metas \ {opts.meta} :
          val' = Validation(gen.code, [Stored EXCEPT !.meta = m])
    /\ pc' = "validated"
    /\ UNCHANGED <<opts, gen, rngLog, rngOut, ent, pat>>

ValidateOtherSecret ==
    /\ pc = "generated"
    /\ gen.err = "none"
    /\ \E k \in ({None} \cup {Some(x) : x \in Secrets}) \ {opts.secret} :
          val' = Validation(gen.code, [Stored EXCEPT !.secret = k])
    /\ pc' = "validated"
    /\ UNCHANGED <<opts, gen, rngLog, rngOut, ent, pat>>

ValidateOtherEncoding ==
    /\ pc = "generated"
    /\ gen.err = "none"
    /\ \E e \in Encodings \ {OrElse(opts.hmacEncoding, "hex")} :
          val' = Validation(gen.code, [Stored EXCEPT !.hmacEncoding = Some(e)])
    /\ pc' = "validated"
    /\ UNCHANGED <<opts, gen, rngLog, rngOut, ent, pat>>

ValidateOtherAlgorithm ==
    /\ pc = "generated"
    /\ gen.err = "none"
    /\ \E a \in Algorithms \ {OrElse(opts.hmacAlgorithm, "sha256")} :
          val' = Validation(gen.code, [Stored EXCEPT !.hmacAlgorithm = Some(a)])
    /\ pc' = "validated"
    /\ UNCHANGED <<opts, gen, rngLog, rngOut, ent, pat>>

ValidateOtherHmac ==
    /\ pc = "generated"
    /\ gen.err = "none"
    /\ \E h \in OtherHmacs(gen.hmac) \ {gen.hmac} :
          val' = Validation(gen.code, [Stored EXCEPT !.hmac = h])
    /\ pc' = "validated"
    /\ UNCHANGED <<opts, gen, rngLog, rngOut, ent, pat>>

NextHmac ==
    \/ Generate
    \/ ValidateGenerated
    \/ ValidateOtherCode
    \/ ValidateOtherMeta
    \/ ValidateOtherSecret
    \/ ValidateOtherEncoding
    \/ ValidateOtherAlgorithm
    \/ ValidateOtherHmac

SpecHmac == InitHmac /\ [][NextHmac]_vars

-----------------------------------------------------------------------------
(* The calling program: generate with a random source that is watched *)

RngAlphabets == {<<"X","Y">>, <<"A","B","C">>, <<"A">>, <<"A","A">>}
RngPatternStrings ==
    {<<"a">>, <<"A","b">>, <<"A","B","A">>, <<"A","A","B">>, <<"A","B","C","A","B","C">>}
RngPools ==
    SeqsUpTo({Template(str) : str \in RngPatternStrings}, MaxPool)

RngOptions ==
    {NoHmacOptions(a, p) :
        a \in {None} \cup {Some(x) : x \in RngAlphabets},
        p \in {None} \cup {Some(x) : x \in RngPools}}

\* the values returned to one generate call by the random source
\* (max) => seq++ % max, whose counter starts at seq
CounterRun(o, seq) ==
    LET alphabet  == OrElse(o.alphabet, DEFAULT_ALPHABET)
        templates == OrElse(o.templates, DEFAULT_TEMPLATES)
        n         == Len(templates)
        a         == Len(alphabet)
        syms(t, first) == [i \in 1..(1 + SeqMax(t.idx)) |-> (first + i - 1) % a]
    IN  IF n = 0 \/ a = 0 THEN <<>>
        ELSE IF n = 1 THEN syms(templates[1], seq)
        ELSE <<seq % n>> \o syms(templates[(seq % n) + 1], seq + 1)

InitRng ==
    /\ pc = "start"
    /\ opts \in RngOptions
    /\ gen = NotGenerated
    /\ rngLog = <<>>
    /\ rngOut = <<>>
    /\ val = NotValidated
    /\ ent = NoEntropy
    /\ pat = NoPattern

\* generate({ ...opts, rng: (max) => seq++ % max })
GenerateCounting ==
    /\ pc = "start"
    /\ \E seq \in 0..MaxSeqStart :
          /\ gen' = generate(opts, CounterRun(opts, seq))
          /\ rngLog' = gen'.rngCalls
          /\ rngOut' = SubSeq(CounterRun(opts, seq), 1, Len(rngLog'))
    /\ pc' = "generated"
    /\ UNCHANGED <<opts, val, ent, pat>>

NextRng == Generate \/ GenerateCounting

SpecRng == InitRng /\ [][NextRng]_vars

-----------------------------------------------------------------------------
(* The calling program: pattern *)

\* letters in both cases, and a character that is no letter
PatternChars == {"A", "a", "B", "b", "z", "1"}
PatternInputs == SeqsUpTo(PatternChars, MaxPatternLen)

InitPattern ==
    /\ pc = "start"
    /\ opts = NoHmacOptions(None, None)
    /\ gen = NotGenerated
    /\ rngLog = <<>>
    /\ rngOut = <<>>
    /\ val = NotValidated
    /\ ent = NoEntropy
    /\ \E str \in PatternInputs : pat = [NoPattern EXCEPT !.str = str]

ParsePattern ==
    /\ pc = "start"
    /\ pat' = [str  |-> pat.str,
               err  |-> pattern(pat.str).err,
               name |-> pattern(pat.str).name,
               idx  |-> pattern(pat.str).idx]
    /\ pc' = "parsed"
    /\ UNCHANGED <<opts, gen, rngLog, rngOut, val, ent>>

NextPattern == ParsePattern

SpecPattern == InitPattern /\ [][NextPattern]_vars

-----------------------------------------------------------------------------
(* The calling program: computeCodeHmac for a code, then again for the same
   code with another metadata value *)

Key2 == <<"2">>
Key10 == <<"1","0">>

\* {b:1, a:2} and {a:2, b:1}
MetaBA == JObj(<<Prop(KeyB, JNum(1)), Prop(KeyA, JNum(2))>>)
MetaAB == JObj(<<Prop(KeyA, JNum(2)), Prop(KeyB, JNum(1))>>)

CanonMetas ==
    { MetaBA, MetaAB,
      JObj(<<Prop(KeyA, JNum(1)), Prop(KeyB, JNum(2))>>),
      JObj(<<Prop(KeyB, JNum(2)), Prop(KeyA, JNum(1))>>),
      JObj(<<Prop(KeyA, MetaBA)>>),
      JObj(<<Prop(KeyA, MetaAB)>>),
      JObj(<<Prop(KeyA, JArr(<<MetaBA>>))>>),
      JObj(<<Prop(KeyA, JArr(<<MetaAB>>))>>),
      JArr(<<MetaBA, JNum(1)>>),
      JArr(<<MetaAB, JNum(1)>>),
      JArr(<<JNum(1), MetaAB>>),
      JObj(<<Prop(Key10, JNum(1)), Prop(Key2, JNum(2)), Prop(KeyA, JNum(3))>>),
      JObj(<<Prop(KeyA, JNum(3)), Prop(Key2, JNum(2)), Prop(Key10, JNum(1))>>),
      JObj(<<Prop(KeyCode, JStr(<<"X">>)), Prop(KeyA, JNum(1))>>),
      JObj(<<Prop(KeyA, JNum(1)), Prop(KeyCode, JStr(<<"X">>))>>),
      JObj(<<Prop(KeyB, JUndef), Prop(KeyA, JNull)>>),
      JObj(<<Prop(KeyA, JNull), Prop(KeyB, JUndef)>>) }

CanonCodes == {<<"A","B">>, <<"a","B">>}

CanonOptions ==
    [alphabet : {None},
     templates : {None},
     secret : {Some(<<"k">>), Some(<<"s">>)},
     meta : CanonMetas,
     hmacAlgorithm : {None, Some("sha512")},
     hmacEncoding : {None, Some("base64"), Some("base64url")},
     hmac : {None}]

InitCanon ==
    /\ pc = "start"
    /\ opts \in CanonOptions
    /\ gen = NotGenerated
    /\ rngLog = <<>>
    /\ rngOut = <<>>
    /\ val = NotValidated
    /\ ent = NoEntropy
    /\ pat = NoPattern

\* h = computeCodeHmac(code, opts): gen holds the code and h
ComputeHmac ==
    /\ pc = "start"
    /\ \E code \in CanonCodes :
          gen' = [NotGenerated EXCEPT !.code = code,
                                      !.hmac = Some(computeCodeHmac(code, opts))]
    /\ pc' = "signed"
    /\ UNCHANGED <<opts, rngLog, rngOut, val, ent, pat>>

\* computeCodeHmac(code, { ...opts, meta: m }): val holds the options and,
\* as their hmac, the result
ComputeHmacOtherMeta ==
    /\ pc = "signed"
    /\ \E m \in CanonMetas \ {opts.meta} :
          LET o == [opts EXCEPT !.meta = m]
          IN  val' = [NotValidated EXCEPT
                         !.code = gen.code,
                         !.o = [o EXCEPT !.hmac = Some(computeCodeHmac(gen.code, o))]]
    /\ pc' = "resigned"
    /\ UNCHANGED <<opts, gen, rngLog, rngOut, ent, pat>>

NextCanon == ComputeHmac \/ ComputeHmacOtherMeta

SpecCanon == InitCanon /\ [][NextCanon]_vars

-----------------------------------------------------------------------------
(* Properties of calcPoolEntropyBits, under SpecEntropy *)

\* number of distinct slot indices of a template
uniqueSlots(t) == Cardinality(Range(t.idx))

RECURSIVE totalCodes(_, _)
\* sum over the templates t of a^uniqueSlots(t)
totalCodes(templates, a) ==
    IF Len(templates) = 0 THEN 0
    ELSE Pow(a, uniqueSlots(templates[1])) + totalCodes(Tail(templates), a)

DefaultEntropyCall ==
    ent.templates = DEFAULT_TEMPLATES /\ ent.alphaLen = Len(DEFAULT_ALPHABET)

\* unique-slot counts of the templates of the call
UniqueCounts == [i \in 1..Len(ent.templates) |-> uniqueSlots(ent.templates[i])]

\* for a non-empty pool and an alphabet length a >= 2 the result is the
\* greatest k with 2^k <= sum of a^uniqueSlots(t)
EntropyIsFloorLog2 ==
    (pc = "entropy" /\ Len(ent.templates) >= 1 /\ ent.alphaLen >= 2) =>
        /\ ent.err = "none"
        /\ Pow(2, ent.bits) <= totalCodes(ent.templates, ent.alphaLen)
        /\ totalCodes(ent.templates, ent.alphaLen) < Pow(2, ent.bits + 1)

BoundaryEntropyCall ==
    /\ pc = "entropy"
    /\ ent.alphaLen = 2
    /\ ent.templates = <<Template(<<"a">>)>>

\* C8 as stated: alphabet length 2 and a single template with one unique slot
\* give 0
C8_BoundaryIsZero == BoundaryEntropyCall => ent.bits = 0

\* C8, amended: alphabet length 2 and a single template with one unique slot
\* give 1, the floor of log2(2^1)
C8_BoundaryIsOne == BoundaryEntropyCall => (ent.err = "none" /\ ent.bits = 1)

C8_Witness == BoundaryEntropyCall /\ uniqueSlots(ent.templates[1]) = 1 /\ ent.bits = 1

-----------------------------------------------------------------------------
(* Properties of generate and validateCode without digest options, under Spec *)

EffectiveAlphabet(o) == OrElse(o.alphabet, DEFAULT_ALPHABET)
EffectiveTemplates(o) == OrElse(o.templates, DEFAULT_TEMPLATES)
HasDuplicate(alphabet) == Cardinality(Range(alphabet)) < Len(alphabet)
BadAlphabet(alphabet) == Len(alphabet) < 2 \/ HasDuplicate(alphabet)

\* C1 as stated: the code generate returns has the length of the selected
\* template and validateCode, with the same alphabet and pool, accepts it
C1_SelfAcceptance ==
    pc = "validated" =>
        /\ val.code = gen.code
        /\ Len(gen.code) = Len(gen.template)
        /\ val.ok = TRUE

\* C9: generate fails with InvalidAlphabet on an alphabet of fewer than 2
\* symbols or with a duplicate, with InvalidTemplatePool on an empty pool, and
\* a failing call has made no call to the random source and produced no output
C9_FailsBeforeAnyDraw ==
    pc = "generated" =>
        /\ BadAlphabet(EffectiveAlphabet(opts)) => gen.err = "InvalidAlphabet"
        /\ (~BadAlphabet(EffectiveAlphabet(opts)) /\ Len(EffectiveTemplates(opts)) = 0)
              => gen.err = "InvalidTemplatePool"
        /\ (~BadAlphabet(EffectiveAlphabet(opts)) /\ Len(EffectiveTemplates(opts)) > 0)
              => gen.err = "none"
        /\ gen.err # "none" =>
              (rngLog = <<>> /\ gen.code = <<>> /\ gen.template = <<>> /\ gen.hmac = None)

C9_Witness ==
    /\ pc = "generated"
    /\ Len(EffectiveAlphabet(opts)) = 2
    /\ HasDuplicate(EffectiveAlphabet(opts))
    /\ Len(EffectiveTemplates(opts)) > 1
    /\ gen.err = "InvalidAlphabet"
    /\ rngLog = <<>>

Validated == pc \in {"checked", "validated"}

\* every two positions of one slot hold the same character
SlotConsistent(up, t) ==
    /\ Len(up) = Len(t.idx)
    /\ \A i, j \in 1..Len(up) : t.idx[i] = t.idx[j] => up[i] = up[j]

OnlyABCABC(o) == o.templates = Some(<<Template(<<"A","B","C","A","B","C">>)>>)

\* C10: without digest options validateCode returns true exactly when every
\* character of the upper-cased candidate is in the alphabet and some template
\* has its length and equal characters wherever the slot index is equal;
\* ZZZZZZ is accepted under ABCABC and ZZZZZX is rejected
C10_AcceptsExactlySlotConsistent ==
    (Validated /\ ~IsSome(val.o.hmac) /\ ~IsSome(val.o.secret)) =>
        LET up        == toUpperCase(val.code)
            alphabet  == EffectiveAlphabet(val.o)
            templates == EffectiveTemplates(val.o)
        IN  /\ val.ok = (/\ \A i \in 1..Len(up) : up[i] \in Range(alphabet)
                         /\ \E k \in 1..Len(templates) : SlotConsistent(up, templates[k]))
            /\ (OnlyABCABC(val.o) /\ ~IsSome(val.o.alphabet)) =>
                  /\ val.code = <<"Z","Z","Z","Z","Z","Z">> => val.ok = TRUE
                  /\ val.code = <<"Z","Z","Z","Z","Z","X">> => val.ok = FALSE

C10_Witness ==
    /\ pc = "checked"
    /\ OnlyABCABC(val.o)
    /\ ~IsSome(val.o.alphabet)
    /\ val.code = <<"Z","Z","Z","Z","Z","Z">>
    /\ val.ok = TRUE

ExplicitBadAlphabet(o) == IsSome(o.alphabet) /\ BadAlphabet(o.alphabet[1])
ExplicitEmptyPool(o) == IsSome(o.templates) /\ Len(o.templates[1]) = 0

\* C6 as stated: validateCode raises InvalidAlphabet on an explicitly supplied
\* alphabet with fewer than 2 symbols or with duplicates, InvalidTemplatePool
\* on an explicitly supplied empty pool, and nothing otherwise
C6_RaisesOnMalformedOptions ==
    Validated =>
        /\ ExplicitBadAlphabet(val.o) => val.err = "InvalidAlphabet"
        /\ (~ExplicitBadAlphabet(val.o) /\ ExplicitEmptyPool(val.o))
              => val.err = "InvalidTemplatePool"
        /\ (~ExplicitBadAlphabet(val.o) /\ ~ExplicitEmptyPool(val.o))
              => val.err = "none"

\* C6, amended: validateCode never throws, for no candidate and for no
\* alphabet or pool; it returns false on an empty pool, and on an alphabet
\* with fewer than 2 symbols or with duplicates it returns the verdict of the
\* syntax check against that alphabet
C6_NeverThrows ==
    Validated =>
        /\ val.err = "none"
        /\ ExplicitEmptyPool(val.o) => val.ok = FALSE
        /\ (ExplicitBadAlphabet(val.o) /\ ~Truthy(val.o.hmac)) =>
              val.ok = (/\ \A i \in 1..Len(val.code) :
                              toUpperCaseChar(val.code[i]) \in Range(val.o.alphabet[1])
                        /\ \E k \in 1..Len(EffectiveTemplates(val.o)) :
                              SlotConsistent(toUpperCase(val.code), EffectiveTemplates(val.o)[k]))

C6_Witness ==
    /\ pc = "checked"
    /\ ExplicitBadAlphabet(val.o)
    /\ HasDuplicate(val.o.alphabet[1])
    /\ Len(val.code) > 0
    /\ val.err = "none"
    /\ val.ok = TRUE

-----------------------------------------------------------------------------
(* Properties of the digest binding, under SpecHmac *)

EncodingOf(o) == OrElse(o.hmacEncoding, "hex")

\* the syntax check alone: alphabet membership and one slot-consistent template
SyntaxOk(code, o) ==
    LET up == toUpperCase(code)
    IN  /\ \A i \in 1..Len(up) : up[i] \in Range(EffectiveAlphabet(o))
        /\ \E k \in 1..Len(EffectiveTemplates(o)) :
              SlotConsistent(up, EffectiveTemplates(o)[k])

\* generate returned an hmac and validateCode was then called with it
ValidatedAgainstStored ==
    /\ pc = "validated"
    /\ IsSome(gen.hmac)
    /\ val.o.hmac = gen.hmac

\* C2 as stated: the code and hmac generate returns are accepted by
\* validateCode under the same alphabet, templates, secret, meta, algorithm
\* and encoding
C2_DigestRoundTrip ==
    (ValidatedAgainstStored /\ val.code = gen.code /\ val.o = Stored) => val.ok = TRUE

DiffersInOneChar(a, b) ==
    /\ Len(a) = Len(b)
    /\ Cardinality({i \in 1..Len(a) : a[i] # b[i]}) = 1

KeysOf(m) == {m.props[i].k : i \in 1..Len(m.props)}

\* m[k]: undefined for a key the object does not have
FieldOf(m, k) == IF k \in KeysOf(m) THEN GetProp(m.props, k) ELSE JUndef

\* two plain objects of which exactly one field has two different values
DiffersInOneField(m1, m2) ==
    /\ m1.t = "object"
    /\ m2.t = "object"
    /\ Cardinality({k \in KeysOf(m1) \cup KeysOf(m2) : FieldOf(m1, k) # FieldOf(m2, k)}) = 1

\* C3 as stated: against the digest of (code, secret, meta), validateCode
\* returns false when the candidate differs from code in one character, or
\* the meta differs in one field, or the supplied secret differs
C3_TamperRejected ==
    (/\ ValidatedAgainstStored
     /\ \/ /\ DiffersInOneChar(val.code, gen.code)
           /\ val.o = Stored
        \/ /\ DiffersInOneField(val.o.meta, opts.meta)
           /\ val.code = gen.code
           /\ val.o = [Stored EXCEPT !.meta = val.o.meta]
        \/ /\ IsSome(val.o.secret)
           /\ val.o.secret # opts.secret
           /\ val.code = gen.code
           /\ val.o = [Stored EXCEPT !.secret = val.o.secret])
    => val.ok = FALSE

\* C4 as stated: with both a secret option and an hmac option, empty strings
\* included, validateCode returns true only if the code is syntactically valid
\* and the hmac decodes to the digest recomputed with that secret
C4_TrueOnlyIfDigestMatches ==
    (/\ pc = "validated"
     /\ IsSome(val.o.hmac)
     /\ IsSome(val.o.secret)
     /\ val.ok = TRUE)
    => /\ SyntaxOk(val.code, val.o)
       /\ decodeHmacToBuffer(val.o.hmac[1], EncodingOf(val.o))
            = Some(computeCodeHmacRaw(toUpperCase(val.code), val.o))

\* validateCode was called with the stored hmac and everything as in generate
\* but the encoding
OtherEncodingOnly ==
    /\ ValidatedAgainstStored
    /\ val.code = gen.code
    /\ val.o = [Stored EXCEPT !.hmacEncoding = val.o.hmacEncoding]
    /\ EncodingOf(val.o) # EncodingOf(opts)

\* C5 as stated: a digest encoded with one scheme and validated under another
\* is rejected, for every pair of distinct schemes
C5_EncodingMismatchRejected == OtherEncodingOnly => val.ok = FALSE

\* C5, amended: a digest encoded with one scheme and validated under another
\* is rejected for every pair of distinct schemes one of which is hex
C5_HexMismatchRejected ==
    (OtherEncodingOnly /\ "hex" \in {EncodingOf(val.o), EncodingOf(opts)})
    => val.ok = FALSE

C5_Witness ==
    /\ OtherEncodingOnly
    /\ EncodingOf(opts) = "base64url"
    /\ EncodingOf(val.o) = "hex"
    /\ SyntaxOk(val.code, val.o)
    /\ val.ok = FALSE

-----------------------------------------------------------------------------
(* Properties of the canonical payload, under SpecCanon *)

RECURSIVE SameContent(_, _)
\* two values with the same key-value content: objects with the same keys and
\* the same content under each key, in whatever order the keys were inserted;
\* arrays with the same content item by item; otherwise equal values
SameContent(v1, v2) ==
    IF v1.t # v2.t THEN FALSE
    ELSE IF v1.t = "object"
    THEN /\ KeysOf(v1) = KeysOf(v2)
         /\ \A k \in KeysOf(v1) : SameContent(GetProp(v1.props, k), GetProp(v2.props, k))
    ELSE IF v1.t = "array"
    THEN /\ Len(v1.items) = Len(v2.items)
         /\ \A i \in 1..Len(v1.items) : SameContent(v1.items[i], v2.items[i])
    ELSE v1 = v2

\* C11: for the same code and secret, two metadata values with the same
\* key-value content and different key insertion order, at any depth, give
\* the same computeCodeHmac output
C11_KeyOrderIrrelevant ==
    (/\ pc = "resigned"
     /\ SameContent(val.o.meta, opts.meta))
    => val.o.hmac = gen.hmac

\* the keys of an object nested in an array were inserted in another order,
\* and the two digests agree
C11_Witness ==
    /\ pc = "resigned"
    /\ opts.meta = JObj(<<Prop(KeyA, JArr(<<MetaBA>>))>>)
    /\ val.o.meta = JObj(<<Prop(KeyA, JArr(<<MetaAB>>))>>)
    /\ val.o.hmac = gen.hmac

-----------------------------------------------------------------------------
(* Properties of pattern, under SpecPattern *)

IsLetter(ch) == ch \in Range(UpperLetters) \cup Range(LowerLetters)

\* position in the Latin alphabet of a letter of either case
LetterIndex(ch) ==
    CHOOSE i \in 1..26 : UpperLetters[i] = ch \/ LowerLetters[i] = ch

LetterString(str) == Len(str) > 0 /\ \A i \in 1..Len(str) : IsLetter(str[i])

\* largest of the first n slot values, -1 for none
MaxBefore(idx, n) ==
    IF n = 0 THEN 0 - 1
    ELSE CHOOSE m \in {idx[i] : i \in 1..n} : \A i \in 1..n : idx[i] <= m

\* C12: for a non-empty string s of letters, pattern(s) succeeds; its slot
\* sequence has the length of s; each slot value is one already seen or one
\* more than the largest seen so far (so the first is 0 and the values are
\* 0..U-1 without gaps); two positions have the same slot value exactly when
\* s has the same letter there ignoring case; the name is s upper-cased; and
\* 1 + max(slot) is the number of distinct slot values
C12_PatternWellFormed ==
    (pc = "parsed" /\ LetterString(pat.str)) =>
        LET s   == pat.str
            idx == pat.idx
            U   == Cardinality(Range(idx))
        IN  /\ pat.err = "none"
            /\ Len(idx) = Len(s)
            /\ idx[1] = 0
            /\ \A p \in 1..Len(idx) : idx[p] \in 0..(MaxBefore(idx, p - 1) + 1)
            /\ Range(idx) = 0..(U - 1)
            /\ \A p, q \in 1..Len(s) :
                   idx[p] = idx[q] <=> LetterIndex(s[p]) = LetterIndex(s[q])
            /\ Len(pat.name) = Len(s)
            /\ \A i \in 1..Len(s) : pat.name[i] = UpperLetters[LetterIndex(s[i])]
            /\ 1 + SeqMax(idx) = U

\* pattern("bABz"): a letter repeated in the other case, then a new one
C12_Witness ==
    /\ pc = "parsed"
    /\ pat.str = <<"b","A","B","z">>
    /\ pat.err = "none"
    /\ pat.idx = <<0, 1, 0, 2>>
    /\ pat.name = <<"B","A","B","Z">>

-----------------------------------------------------------------------------
(* Properties of the calls generate makes to the random source, under SpecRng *)

\* the template a successful call selected: the only one, or the one at the
\* index the first call returned
SelectedTemplate ==
    LET templates == EffectiveTemplates(opts)
    IN  IF Len(templates) = 1 THEN templates[1] ELSE templates[rngOut[1] + 1]

\* number of calls made for the selection
SelectionCalls == IF Len(EffectiveTemplates(opts)) = 1 THEN 0 ELSE 1

\* the random source returned 0, 1, 2, ... modulo the range asked for
CountsFromZero ==
    /\ Len(rngOut) = Len(rngLog)
    /\ \A k \in 1..Len(rngOut) : rngOut[k] = (k - 1) % rngLog[k]

ABCABC == <<"A","B","C","A","B","C">>

\* C13: a successful generate makes no call for the selection when the pool
\* has one template and otherwise first one call rng(poolSize); then U calls
\* rng(alphabetLength), U the selected template's unique-slot count; the
\* character at position p is alphabet[d_k], d_k the k-th symbol draw and k
\* the slot index at p; so a source counting from 0 and the pool
\* [pattern("ABCABC")] give A[0]A[1]A[2]A[0]A[1]A[2] (indices modulo the
\* alphabet's length)
C13_FixedDrawSequence ==
    (pc = "generated" /\ gen.err = "none") =>
        LET alphabet  == EffectiveAlphabet(opts)
            templates == EffectiveTemplates(opts)
            t         == SelectedTemplate
            U         == uniqueSlots(t)
        IN  /\ rngLog = (IF Len(templates) = 1 THEN <<>> ELSE <<Len(templates)>>)
                         \o [i \in 1..U |-> Len(alphabet)]
            /\ Len(rngOut) = Len(rngLog)
            /\ gen.template = t.name
            /\ Len(gen.code) = Len(t.idx)
            /\ \A p \in 1..Len(t.idx) :
                   gen.code[p] = alphabet[rngOut[SelectionCalls + t.idx[p] + 1] + 1]
            /\ (templates = <<Template(ABCABC)>> /\ CountsFromZero) =>
                   gen.code = [p \in 1..6 |-> alphabet[(((p - 1) % 3) % Len(alphabet)) + 1]]

\* the test's call: the default alphabet, the pool [pattern("ABCABC")], the
\* source counting from 0
C13_Witness ==
    /\ pc = "generated"
    /\ opts.alphabet = None
    /\ opts.templates = Some(<<Template(ABCABC)>>)
    /\ rngLog = <<33, 33, 33>>
    /\ rngOut = <<0, 1, 2>>
    /\ gen.code = <<"0","1","2","0","1","2">>

====
